---- MODULE Spec2Model ----
(***************************************************************************)
(* HSAJ bridge (bridge/src/index.js): the transport emitter                *)
(* (createTransportEmitter: trackStart / stopCurrentTrack over one         *)
(* currentTrackId) and the WebSocket channel it broadcasts on              *)
(* (startWebSocketChannel: broadcastTransportEvent over wss.clients).      *)
(*                                                                         *)
(* Every handler runs to completion on Node's single event loop, so each   *)
(* handler is one atomic action.  The ws library is the environment: it    *)
(* adds a client to wss.clients, moves its readyState and removes it.      *)
(* client.send on an OPEN socket does not throw; a failed write is         *)
(* reported asynchronously and only to a callback, which the bridge does   *)
(* not pass.                                                               *)
(***************************************************************************)
EXTENDS Integers, Sequences, FiniteSets, TLC

\* ------------------------------------------------------------------ bounds
\* Events the emitter may hand to the broadcaster while subscribers come and go.
MaxEvents == 3
\* Events the emitter may hand to the broadcaster when it is driven on its own.
MaxEmitted == 4
\* Number of times the wall clock advances.
MaxClock == 1
\* Events the emitter may hand to the broadcaster beside the status API.
MaxApiEvents == 2

\* --------------------------------------------------------------- constants
BRIDGE_SOURCE == "bridge"

\* let currentTrackId = null
null == "<null>"

Subscribers == {"ws1", "ws2"}

\* WebSocket.readyState values a member of wss.clients goes through; PENDING is a
\* connection that has not arrived yet.
OPEN == "OPEN"
CLOSING == "CLOSING"
CLOSED == "CLOSED"
PENDING == "PENDING"

DEMO_TRACKS ==
  << [ roon_track_id |-> "demo-track-1", track_id |-> "demo-track-1",
       title |-> "Demo Track 1", artist |-> "HSAJ Dev", album |-> "Bridge Demo",
       quality |-> "lossless", duration_ms |-> 180000, trackno |-> 1 ],
     [ roon_track_id |-> "demo-track-2", track_id |-> "demo-track-2",
       title |-> "Demo Track 2", artist |-> "HSAJ Dev", album |-> "Bridge Demo",
       quality |-> "atmos", duration_ms |-> 200000, trackno |-> 2 ] >>

\* Payloads a caller of trackStart may pass (TransportEventPayload): the two
\* demo tracks, a re-notification of the first one that carries its own event,
\* timestamp and source, a payload with an empty track_id and one without any.
UpstreamTrack ==
  [ event |-> "track_stop", track_id |-> "demo-track-1", title |-> "Demo Track 1",
    timestamp |-> "2024-01-01T00:00:00.000Z", source |-> "upstream" ]

EmptyIdTrack == [ track_id |-> "", title |-> "Untitled" ]

NoIdTrack == [ title |-> "Untitled" ]

Tracks == { DEMO_TRACKS[1], DEMO_TRACKS[2], UpstreamTrack, EmptyIdTrack, NoIdTrack }

\* @param {"track_stop" | "track_start"} reason
Reasons == { "track_stop", "track_start" }

\* ---------------------------------------------------------- pure functions
\* new Date().toISOString() at clock reading t.
toISOString(t) ==
  CASE t = 0 -> "1970-01-01T00:00:00.000Z"
    [] t = 1 -> "1970-01-01T00:00:00.001Z"
    [] t = 2 -> "1970-01-01T00:00:00.002Z"
    [] OTHER -> "1970-01-01T00:00:00.003Z"

\* payload.f ?? dflt
Coalesce(payload, f, dflt) == IF f \in DOMAIN payload THEN payload[f] ELSE dflt

\* { ...payload, timestamp: payload.timestamp ?? now, source: payload.source ?? source }
StampedEvent_Overwrite(payload, source, t) ==
  [ f \in DOMAIN payload \cup { "timestamp", "source" } |->
      CASE f = "timestamp" -> toISOString(t)
        [] f = "source" -> source
        [] OTHER -> payload[f] ]

StampedEvent(payload, source, t) ==
  [ f \in DOMAIN payload \cup { "timestamp", "source" } |->
      CASE f = "timestamp" -> Coalesce(payload, "timestamp", toISOString(t))
        [] f = "source" -> Coalesce(payload, "source", source)
        [] OTHER -> payload[f] ]

\* JSON.stringify: the text of the object, kept as the tagged object it encodes.
JSONstringify(obj) == << "json", obj >>

buildTransportMessage(payload, source, t) ==
  JSONstringify([ type |-> "transport_event", event |-> StampedEvent(payload, source, t) ])

\* { ...track, event: "track_start" }
normalizeTrackPayload_CallerWins(track) ==
  [ f \in DOMAIN track \cup { "event" } |->
      IF f \in DOMAIN track THEN track[f] ELSE "track_start" ]

normalizeTrackPayload(track) ==
  [ f \in DOMAIN track \cup { "event" } |->
      IF f = "event" THEN "track_start" ELSE track[f] ]

\* !track.track_id
NoTrackId_OnlyAbsent(track) == "track_id" \notin DOMAIN track

NoTrackId(track) == "track_id" \notin DOMAIN track \/ track.track_id = ""

\* { event: reason, track_id: currentTrackId }
StopPayload_WithTitle(reason, id) ==
  [ event |-> reason, track_id |-> id, title |-> "Demo Track 1" ]

StopPayload(reason, id) == [ event |-> reason, track_id |-> id ]

\* ------------------------------------------------------------------- state
VARIABLES
  currentTrackId,  \* createTransportEmitter's closure variable
  clients,         \* wss.clients
  readyState,      \* client.readyState of every connection
  now,             \* the wall clock read by new Date()
  emitted,         \* history: the payloads handed to the broadcaster, in order
  sent,            \* history: per connection, the client.send calls, in order
  subscribedAt,    \* history: Len(emitted) when the connection was accepted
  sendFailed,      \* history: connections whose send failed in the last broadcast
  lastCall,        \* history: the last emitter call and the state it started in
  roonStatus,      \* roonConnection.status
  blockedEnv,      \* process.env.BRIDGE_BLOCKED_NOT_IMPLEMENTED
  process,         \* "running", or "crashed" after an uncaught exception
  lastPairing,     \* history: the last pairing callback
  lastExchange,    \* history: the last HTTP request and what came of it
  demoEnv,         \* process.env.BRIDGE_DISABLE_DEMO
  currentIndex,    \* startDemoTransportFeed's closure variable
  pc,              \* "boot" until startBridge has run, then "running"
  tickParity       \* history: flips on every firing of the demo feed's timer

apiVars == << roonStatus, blockedEnv, process, lastPairing, lastExchange >>

feedVars == << demoEnv, currentIndex, pc, tickParity >>

vars ==
  << currentTrackId, clients, readyState, now, emitted, sent, subscribedAt,
     sendFailed, lastCall, apiVars, feedVars >>

NoCall == [ op |-> "none", track |-> << >>, reason |-> "", before |-> null, n |-> 0 ]

\* An environment variable that is not set.
unset == "<unset>"

NoExchange ==
  [ method |-> "", url |-> << >>, pairing |-> "none", outcome |-> "none",
    responses |-> << >>, blockedProviderCalls |-> 0 ]

\* createTransportEmitter and startWebSocketChannel have just returned.
InitChannel ==
  /\ currentTrackId = null
  /\ clients = {}
  /\ readyState = [ s \in Subscribers |-> PENDING ]
  /\ now = 0
  /\ emitted = << >>
  /\ sent = [ s \in Subscribers |-> << >> ]
  /\ subscribedAt = [ s \in Subscribers |-> 0 ]
  /\ sendFailed = {}
  /\ lastCall = NoCall

\* const roonConnection = { status: "disconnected" }
InitApi ==
  /\ roonStatus = "disconnected"
  /\ process = "running"
  /\ lastPairing = "none"
  /\ lastExchange = NoExchange

\* The emitter and the channel on their own: default configuration, no demo
\* feed (BRIDGE_DISABLE_DEMO=1), startBridge done.
Init ==
  /\ InitChannel
  /\ InitApi
  /\ blockedEnv = unset
  /\ demoEnv = "1"
  /\ currentIndex = 0
  /\ pc = "running"
  /\ tickParity = 0

\* ------------------------------------------------------ broadcast channel
\* client.readyState === WebSocket.OPEN
IsOpen_AnyState(client) == TRUE

IsOpen(client) == readyState[client] = OPEN

\* The clients broadcastTransportEvent calls client.send on.
SendTargets == { client \in clients : IsOpen(client) }

\* client.send(message): the socket queues the frame behind the earlier ones.
\* seq is the position in emitted of the event the message was built from.
ClientSend_Front(log, seq, message) == << [ seq |-> seq, message |-> message ] >> \o log

ClientSend(log, seq, message) == Append(log, [ seq |-> seq, message |-> message ])

\* The histories keep their last HistoryWindow entries.
HistoryWindow == MaxEmitted

Keep(log) == IF Len(log) > HistoryWindow THEN Tail(log) ELSE log

\* broadcastTransportEvent(payload): one message, sent to every open client of
\* wss.clients.  Which of the writes fail afterwards is the transport's choice;
\* the bridge passes no callback and never learns of it.
broadcastTransportEvent(payload, op) ==
  LET message == buildTransportMessage(payload, BRIDGE_SOURCE, now)
  IN  /\ sent' = [ s \in Subscribers |->
                     IF s \in SendTargets
                       THEN Keep(ClientSend(sent[s], Len(emitted) + 1, message))
                       ELSE sent[s] ]
      /\ \E failing \in SUBSET SendTargets : sendFailed' = failing
      /\ emitted' = Keep(Append(emitted, [ op |-> op, payload |-> payload ]))

\* wss.on("connection", ...): what the handler sends to the new client.
ConnectionReplay_CurrentTrack(s) ==
  IF currentTrackId # null
    THEN << [ seq |-> Len(emitted),
              message |-> buildTransportMessage(emitted[Len(emitted)].payload,
                                                BRIDGE_SOURCE, now) ] >>
    ELSE << >>

ConnectionReplay(s) == << >>

\* ------------------------------------------------------- transport emitter
\* currentTrackId === track.track_id
SameTrack_Never(track) == FALSE

SameTrack_AnyPlaying(track) == currentTrackId # null

SameTrack(track) == currentTrackId = track.track_id

\* !currentTrackId
NoCurrentTrack_Never == FALSE

NoCurrentTrack == currentTrackId = null

\* currentTrackId = null, the last statement of stopCurrentTrack
ClearedTrackId_Kept == currentTrackId

ClearedTrackId == null

trackStart(track) ==
  /\ IF NoTrackId(track)
       THEN UNCHANGED << currentTrackId, emitted, sent, sendFailed >>
       ELSE IF SameTrack(track)
         THEN UNCHANGED << currentTrackId, emitted, sent, sendFailed >>
         ELSE /\ currentTrackId' = track.track_id
              /\ broadcastTransportEvent(normalizeTrackPayload(track), "trackStart")
  /\ UNCHANGED << clients, readyState, now, subscribedAt >>

stopCurrentTrack(reason) ==
  /\ IF NoCurrentTrack
       THEN UNCHANGED << currentTrackId, emitted, sent, sendFailed >>
       ELSE /\ broadcastTransportEvent(StopPayload(reason, currentTrackId),
                                       "stopCurrentTrack")
            /\ currentTrackId' = ClearedTrackId
  /\ UNCHANGED << clients, readyState, now, subscribedAt >>

\* ------------------------------------------------------------- environment
\* The ws server completes an upgrade: the socket is OPEN when it joins
\* wss.clients, and the wss.on("connection", ...) handler only logs.
ClientConnected(s) ==
  /\ readyState[s] = PENDING
  /\ clients' = clients \cup { s }
  /\ readyState' = [ readyState EXCEPT ![s] = OPEN ]
  /\ subscribedAt' = [ subscribedAt EXCEPT ![s] = Len(emitted) ]
  /\ sent' = [ sent EXCEPT ![s] = ConnectionReplay(s) ]
  /\ UNCHANGED << currentTrackId, now, emitted, sendFailed, lastCall >>

\* A close handshake starts (either side): the socket stays in wss.clients.
ClientClosing(s) ==
  /\ readyState[s] = OPEN
  /\ readyState' = [ readyState EXCEPT ![s] = CLOSING ]
  /\ UNCHANGED << currentTrackId, clients, now, emitted, sent, subscribedAt,
                  sendFailed, lastCall >>

\* The socket closes (after a handshake or abruptly): the ws server drops it
\* from wss.clients in the same turn.
ClientClosed(s) ==
  /\ readyState[s] \in { OPEN, CLOSING }
  /\ readyState' = [ readyState EXCEPT ![s] = CLOSED ]
  /\ clients' = clients \ { s }
  /\ UNCHANGED << currentTrackId, now, emitted, sent, subscribedAt, sendFailed,
                  lastCall >>

Tick ==
  /\ now < MaxClock
  /\ now' = now + 1
  /\ UNCHANGED << currentTrackId, clients, readyState, emitted, sent, subscribedAt,
                  sendFailed, lastCall >>

\* stopCurrentTrack(): reason = "track_stop" when the caller gives none.
DefaultReason == { "track_stop" }

\* The bridge with subscribers coming and going.
Next ==
  \/ \E track \in Tracks :
       /\ Len(emitted) < MaxEvents
       /\ trackStart(track)
       /\ UNCHANGED << lastCall, apiVars, feedVars >>
  \/ \E reason \in DefaultReason :
       /\ Len(emitted) < MaxEvents
       /\ stopCurrentTrack(reason)
       /\ UNCHANGED << lastCall, apiVars, feedVars >>
  \/ \E s \in Subscribers : ClientConnected(s) /\ UNCHANGED << apiVars, feedVars >>
  \/ \E s \in Subscribers : ClientClosing(s) /\ UNCHANGED << apiVars, feedVars >>
  \/ \E s \in Subscribers : ClientClosed(s) /\ UNCHANGED << apiVars, feedVars >>
  \/ Tick /\ UNCHANGED << apiVars, feedVars >>

Spec == Init /\ [][Next]_vars

\* The emitter driven call by call, each call recorded with the state it found.
CallTrackStart(track) ==
  /\ Len(emitted) < MaxEmitted
  /\ trackStart(track)
  /\ lastCall' = [ op |-> "trackStart", track |-> track, reason |-> "",
                   before |-> currentTrackId, n |-> Len(emitted) ]
  /\ UNCHANGED << apiVars, feedVars >>

CallStopCurrentTrack(reason) ==
  /\ Len(emitted) < MaxEmitted
  /\ stopCurrentTrack(reason)
  /\ lastCall' = [ op |-> "stopCurrentTrack", track |-> << >>, reason |-> reason,
                   before |-> currentTrackId, n |-> Len(emitted) ]
  /\ UNCHANGED << apiVars, feedVars >>

NextEmitter ==
  \/ \E track \in Tracks : CallTrackStart(track)
  \/ \E reason \in Reasons : CallStopCurrentTrack(reason)

EmitterSpec == Init /\ [][NextEmitter]_vars

\* -------------------------------------------------------------- status API
\* req.url of the requests tried, character by character.
Url_Health == << "/", "h", "e", "a", "l", "t", "h" >>

Url_HealthQuery == << "/", "h", "e", "a", "l", "t", "h", "?", "p", "r", "o", "b", "e" >>

Url_Blocked == << "/", "b", "l", "o", "c", "k", "e", "d" >>

Url_Track1 == << "/", "t", "r", "a", "c", "k", "/", "d", "e", "m", "o", "-", "t", "r", "a", "c", "k", "-", "1" >>

Url_Track2Encoded == << "/", "t", "r", "a", "c", "k", "/", "d", "e", "m", "o", "%", "2", "D", "t", "r", "a", "c", "k", "%", "2", "D", "2" >>

Url_TrackUnknown == << "/", "t", "r", "a", "c", "k", "/", "u", "n", "k", "n", "o", "w", "n", "-", "i", "d" >>

Url_TrackSpace == << "/", "t", "r", "a", "c", "k", "/", "a", "%", "2", "0", "b" >>

Url_TrackBadHex == << "/", "t", "r", "a", "c", "k", "/", "%", "z", "z" >>

Url_TrackCutShort == << "/", "t", "r", "a", "c", "k", "/", "1", "0", "0", "%" >>

Url_TrackNoId == << "/", "t", "r", "a", "c", "k", "/" >>

Url_TrackNoSlash == << "/", "t", "r", "a", "c", "k" >>

Url_Other == << "/", "n", "o", "p", "e" >>

Url_None == << >>

Urls ==
  { Url_Health,
    Url_HealthQuery,
    Url_Blocked,
    Url_Track1,
    Url_Track2Encoded,
    Url_TrackUnknown,
    Url_TrackSpace,
    Url_TrackBadHex,
    Url_TrackCutShort,
    Url_TrackNoId,
    Url_TrackNoSlash,
    Url_Other,
    Url_None }

Methods == { "GET", "POST" }

Requests == [ method : Methods, url : Urls ]

DEMO_BLOCKS ==
  << [ type |-> "track", id |-> "demo-track-2", label |-> "Demo Track 2 (blocked)" ],
     [ type |-> "artist", id |-> "demo-artist-1", label |-> "HSAJ Dev" ] >>

\* process.env.BRIDGE_BLOCKED_NOT_IMPLEMENTED !== "1"
BLOCKED_ENDPOINT_ENABLED_Always == TRUE

BLOCKED_ENDPOINT_ENABLED == blockedEnv # "1"

\* The characters of a string-valued sequence, joined.
RECURSIVE Text(_)
Text(chars) == IF chars = << >> THEN "" ELSE chars[1] \o Text(Tail(chars))

\* The first position of chars at which one of the characters of stops stands,
\* or Len(chars) + 1.
RECURSIVE FirstOf(_, _, _)
FirstOf(chars, stops, i) ==
  IF i > Len(chars) \/ chars[i] \in stops THEN i ELSE FirstOf(chars, stops, i + 1)

\* new URL(req.url, `http://${req.headers.host}`).pathname: the request target up
\* to its query or fragment.
Pathname(url) == SubSeq(url, 1, FirstOf(url, { "?", "#" }, 1) - 1)

\* pathname.startsWith(prefix)
StartsWith(chars, prefix) ==
  Len(chars) >= Len(prefix) /\ SubSeq(chars, 1, Len(prefix)) = prefix

\* The first position at which pattern occurs in chars, or 0.
RECURSIVE IndexOf(_, _, _)
IndexOf(chars, pattern, i) ==
  IF i + Len(pattern) - 1 > Len(chars) THEN 0
  ELSE IF SubSeq(chars, i, i + Len(pattern) - 1) = pattern THEN i
  ELSE IndexOf(chars, pattern, i + 1)

\* chars.replace(pattern, ""): the first occurrence is cut out.
RemoveFirst(chars, pattern) ==
  LET i == IndexOf(chars, pattern, 1)
  IN  IF i = 0 THEN chars
      ELSE SubSeq(chars, 1, i - 1) \o SubSeq(chars, i + Len(pattern), Len(chars))

TrackPrefix == << "/", "t", "r", "a", "c", "k", "/" >>

HexDigits ==
  { "0", "1", "2", "3", "4", "5", "6", "7", "8", "9",
    "a", "b", "c", "d", "e", "f", "A", "B", "C", "D", "E", "F" }

HexValue(c) ==
  CASE c = "0" -> 0 [] c = "1" -> 1 [] c = "2" -> 2 [] c = "3" -> 3 [] c = "4" -> 4
    [] c = "5" -> 5 [] c = "6" -> 6 [] c = "7" -> 7 [] c = "8" -> 8 [] c = "9" -> 9
    [] c \in { "a", "A" } -> 10 [] c \in { "b", "B" } -> 11 [] c \in { "c", "C" } -> 12
    [] c \in { "d", "D" } -> 13 [] c \in { "e", "E" } -> 14 [] c \in { "f", "F" } -> 15

\* The character of a byte below 128 (those the requests tried escape).
AsciiChar(n) ==
  CASE n = 32 -> " " [] n = 37 -> "%" [] n = 45 -> "-" [] n = 47 -> "/"

URIError == [ ok |-> FALSE, value |-> "" ]

\* decodeURIComponent(chars): every %XX escape becomes the character it encodes;
\* a % that is not followed by two hex digits, or an escape that is no complete
\* UTF-8 sequence, throws URIError.
RECURSIVE decodeURIComponent(_)
decodeURIComponent_AsIs(chars) == [ ok |-> TRUE, value |-> Text(chars) ]

decodeURIComponent(chars) ==
  IF chars = << >> THEN [ ok |-> TRUE, value |-> "" ]
  ELSE IF chars[1] # "%"
    THEN LET rest == decodeURIComponent(Tail(chars))
         IN  IF rest.ok THEN [ ok |-> TRUE, value |-> chars[1] \o rest.value ]
             ELSE URIError
  ELSE IF Len(chars) < 3 \/ chars[2] \notin HexDigits \/ chars[3] \notin HexDigits
    THEN URIError
  ELSE LET byte == 16 * HexValue(chars[2]) + HexValue(chars[3])
           rest == decodeURIComponent(SubSeq(chars, 4, Len(chars)))
       IN  IF byte >= 128 \/ ~ rest.ok THEN URIError
           ELSE [ ok |-> TRUE, value |-> AsciiChar(byte) \o rest.value ]

\* item.roon_track_id === roonTrackId || item.track_id === roonTrackId
TrackMatches(item, roonTrackId) ==
  item.roon_track_id = roonTrackId \/ item.track_id = roonTrackId

\* getTrackDetails(roonTrackId): << >> is null, << details >> the record found.
getTrackDetails(roonTrackId) ==
  LET found == { i \in 1..Len(DEMO_TRACKS) : TrackMatches(DEMO_TRACKS[i], roonTrackId) }
  IN  IF found = {} THEN << >>
      ELSE LET track == DEMO_TRACKS[CHOOSE i \in found : \A j \in found : i <= j]
           IN  << [ roon_track_id |-> track.roon_track_id, artist |-> track.artist,
                    album |-> track.album, title |-> track.title,
                    duration_ms |-> track.duration_ms, trackno |-> track.trackno ] >>

\* buildHealthResponse(roonStatus)
buildHealthResponse(status) == [ status |-> "ok", roon |-> status ]

\* res.writeHead(code, ...); res.end(JSON.stringify(body))
Respond(code, body) ==
  [ outcome |-> "responded",
    responses |-> << [ code |-> code, body |-> JSONstringify(body) ] >>,
    blockedProviderCalls |-> 0 ]

\* The request listener of startApiServer: what it does with one request.
RequestListener(req) ==
  LET hasUrl == req.url # << >>
      pathname == Pathname(req.url)
  IN  IF req.method = "GET" /\ hasUrl /\ pathname = Url_Health
        THEN Respond(200, buildHealthResponse(roonStatus))
      ELSE IF req.method = "GET" /\ hasUrl /\ pathname = Url_Blocked
        THEN IF ~ BLOCKED_ENDPOINT_ENABLED
               THEN Respond(501,
                      [ message |-> "Blocked endpoint is not implemented in this build" ])
               ELSE [ Respond(200, DEMO_BLOCKS) EXCEPT !.blockedProviderCalls = 1 ]
      ELSE IF req.method = "GET" /\ hasUrl /\ StartsWith(pathname, TrackPrefix)
        THEN LET roonTrackId == decodeURIComponent(RemoveFirst(pathname, TrackPrefix))
             IN  IF ~ roonTrackId.ok
                   THEN [ outcome |-> "threw", responses |-> << >>,
                          blockedProviderCalls |-> 0 ]
                 ELSE LET track == getTrackDetails(roonTrackId.value)
                      IN  IF track # << >>
                            THEN Respond(200, track[1])
                            ELSE Respond(404, [ message |-> "Track not found",
                                                roon_track_id |-> roonTrackId.value ])
      ELSE Respond(404, [ message |-> "Not Found" ])

\* What handling a request does to the rest of the bridge: nothing.
RequestEffect_MarksConnected ==
  /\ roonStatus' = "connected"
  /\ UNCHANGED << currentTrackId, clients, readyState, now, emitted, sent,
                  subscribedAt, sendFailed, lastCall, blockedEnv, lastPairing,
                  feedVars >>

RequestEffect ==
  UNCHANGED << currentTrackId, clients, readyState, now, emitted, sent, subscribedAt,
               sendFailed, lastCall, roonStatus, blockedEnv, lastPairing, feedVars >>

\* One HTTP request, handled to completion.  An exception the listener throws is
\* caught by nobody: the process ends.
HttpRequest(req) ==
  /\ process = "running"
  /\ LET result == RequestListener(req)
     IN  /\ lastExchange' = [ method |-> req.method, url |-> req.url,
                              pairing |-> lastPairing, outcome |-> result.outcome,
                              responses |-> result.responses,
                              blockedProviderCalls |-> result.blockedProviderCalls ]
         /\ process' = IF result.outcome = "threw" THEN "crashed" ELSE "running"
  /\ RequestEffect

\* core_paired / core_unpaired: the status the callback stores.
UnpairedStatus_Stale == roonStatus

UnpairedStatus == "disconnected"

core_paired ==
  /\ process = "running"
  /\ roonStatus' = "connected"
  /\ lastPairing' = "paired"
  /\ UNCHANGED << currentTrackId, clients, readyState, now, emitted, sent,
                  subscribedAt, sendFailed, lastCall, blockedEnv, process,
                  lastExchange, feedVars >>

core_unpaired ==
  /\ process = "running"
  /\ roonStatus' = UnpairedStatus
  /\ lastPairing' = "unpaired"
  /\ UNCHANGED << currentTrackId, clients, readyState, now, emitted, sent,
                  subscribedAt, sendFailed, lastCall, blockedEnv, process,
                  lastExchange, feedVars >>

\* The status API beside the emitter, under each setting of the blocked flag.
InitStatusApi ==
  /\ InitChannel
  /\ InitApi
  /\ blockedEnv \in { unset, "0", "1" }
  /\ demoEnv = "1"
  /\ currentIndex = 0
  /\ pc = "running"
  /\ tickParity = 0

NextStatusApi ==
  \/ \E req \in Requests : HttpRequest(req)
  \/ core_paired
  \/ core_unpaired
  \/ \E track \in Tracks :
       /\ process = "running"
       /\ Len(emitted) < MaxApiEvents
       /\ trackStart(track)
       /\ UNCHANGED << lastCall, apiVars, feedVars >>
  \/ \E reason \in Reasons :
       /\ process = "running"
       /\ Len(emitted) < MaxApiEvents
       /\ stopCurrentTrack(reason)
       /\ UNCHANGED << lastCall, apiVars, feedVars >>

StatusApiSpec == InitStatusApi /\ [][NextStatusApi]_vars

\* ------------------------------------------------------ assembled bridge
\* process.env.BRIDGE_DISABLE_DEMO !== "1"
DemoEnabled_Always == TRUE

DemoEnabled == demoEnv # "1"

\* (currentIndex + 1) % demoTracks.length
NextIndex_Stuck(index) == index

NextIndex(index) == (index + 1) % Len(DEMO_TRACKS)

\* Requests made of the running bridge: a well-formed and a malformed one.
BridgeRequests ==
  { [ method |-> "GET", url |-> url ] : url \in { Url_Health, Url_TrackBadHex } }

\* The connection followed through the life of the bridge.
BridgeSubscribers == { "ws1" }

\* startBridge(): one synchronous turn.  The server is listening at its end;
\* connections and requests are handled in later turns.
startBridge ==
  /\ pc = "boot"
  /\ pc' = "running"
  /\ IF DemoEnabled
       THEN /\ currentIndex' = 0
            /\ trackStart(DEMO_TRACKS[0 + 1])
       ELSE UNCHANGED << currentTrackId, clients, readyState, now, emitted, sent,
                         subscribedAt, sendFailed, currentIndex >>
  /\ UNCHANGED << lastCall, apiVars, demoEnv, tickParity >>

\* The setInterval callback of startDemoTransportFeed.
DemoTick ==
  /\ pc = "running"
  /\ process = "running"
  /\ DemoEnabled
  /\ currentIndex' = NextIndex(currentIndex)
  /\ trackStart(DEMO_TRACKS[currentIndex' + 1])
  /\ tickParity' = 1 - tickParity
  /\ UNCHANGED << lastCall, apiVars, demoEnv, pc >>

Serving == pc = "running" /\ process = "running"

InitBridge ==
  /\ InitChannel
  /\ InitApi
  /\ blockedEnv = unset
  /\ demoEnv \in { unset, "1" }
  /\ currentIndex = 0
  /\ pc = "boot"
  /\ tickParity = 0

NextBridge ==
  \/ startBridge
  \/ DemoTick
  \/ core_paired /\ Serving
  \/ core_unpaired /\ Serving
  \/ \E req \in BridgeRequests : HttpRequest(req) /\ Serving
  \/ \E s \in BridgeSubscribers :
       Serving /\ ClientConnected(s) /\ UNCHANGED << apiVars, feedVars >>
  \/ \E s \in BridgeSubscribers :
       Serving /\ ClientClosing(s) /\ UNCHANGED << apiVars, feedVars >>
  \/ \E s \in BridgeSubscribers :
       Serving /\ ClientClosed(s) /\ UNCHANGED << apiVars, feedVars >>
  \/ Serving /\ Tick /\ UNCHANGED << apiVars, feedVars >>

BridgeSpec == InitBridge /\ [][NextBridge]_vars

\* The timer fires as long as the process runs.
FairBridgeSpec == BridgeSpec /\ WF_vars(DemoTick)

\* ------------------------------------------------------------- properties
Last(seq) == seq[Len(seq)]

\* The event at position i of emitted was produced by trackStart / stopCurrentTrack.
StartEventAt(i) ==
  emitted[i].op = "trackStart" /\ emitted[i].payload.event = "track_start"

StopEventAt(i) == emitted[i].op = "stopCurrentTrack"

TrackIdAt(i) == emitted[i].payload.track_id

\* The track of the last call has no usable id (track_id empty or absent).
LastCallWithoutId ==
  "track_id" \notin DOMAIN lastCall.track \/ lastCall.track.track_id = ""

\* The last call changed neither the current track nor the emitted sequence.
LastCallWasNoOp == Len(emitted) = lastCall.n /\ currentTrackId = lastCall.before

\* C1: every stop event for a track id X is preceded by a track_start for X, with
\* no other stop event for X between that track_start and the stop: a stop event
\* only follows a matching start, and there is at most one stop per play session.
C1_StopFollowsItsStart ==
  \A i \in 1..Len(emitted) :
    StopEventAt(i) =>
      \E j \in 1..(i - 1) :
        /\ StartEventAt(j)
        /\ TrackIdAt(j) = TrackIdAt(i)
        /\ \A k \in (j + 1)..(i - 1) :
             ~ (StopEventAt(k) /\ TrackIdAt(k) = TrackIdAt(i))

\* Two stop events of the same track id have been emitted.
C1_Witness ==
  \E i, j \in 1..Len(emitted) :
    i < j /\ StopEventAt(i) /\ StopEventAt(j) /\ TrackIdAt(i) = TrackIdAt(j)

\* A trackStart call with the id that is already current is a no-op.
SameIdCallIsNoOp ==
  ( /\ lastCall.op = "trackStart"
    /\ ~ LastCallWithoutId
    /\ lastCall.track.track_id = lastCall.before )
  => LastCallWasNoOp

\* C2 as stated: a trackStart call with the current id is a no-op, and no two
\* adjacent emitted events are both track_start events with the same track_id.
C2_NoAdjacentTrackStart ==
  /\ SameIdCallIsNoOp
  /\ \A i \in 1..(Len(emitted) - 1) :
       ~ ( /\ emitted[i].payload.event = "track_start"
           /\ emitted[i + 1].payload.event = "track_start"
           /\ TrackIdAt(i) = TrackIdAt(i + 1) )

\* C2 amended: a trackStart call with the current id is a no-op, and no two
\* adjacent emitted events are both produced by trackStart with the same
\* track_id (an event of stopCurrentTrack lies between two such events).
C2_NoAdjacentStartByTrackStart ==
  /\ SameIdCallIsNoOp
  /\ \A i \in 1..(Len(emitted) - 1) :
       ~ ( /\ emitted[i].op = "trackStart"
           /\ emitted[i + 1].op = "trackStart"
           /\ TrackIdAt(i) = TrackIdAt(i + 1) )

\* The track that is playing was notified again, with a different payload.
C2_Witness ==
  /\ lastCall.op = "trackStart"
  /\ lastCall.before = "demo-track-1"
  /\ lastCall.track = UpstreamTrack
  /\ Len(emitted) >= 3

\* C3: a trackStart call for track B while a different track A is current emits
\* exactly one event, the track_start of B, right after the track_start of A (no
\* stop event for A), and makes B the current track.
C3_TrackSwitch ==
  ( /\ lastCall.op = "trackStart"
    /\ ~ LastCallWithoutId
    /\ lastCall.before # null
    /\ lastCall.track.track_id # lastCall.before )
  => /\ Len(emitted) = lastCall.n + 1
     /\ lastCall.n >= 1
     /\ StartEventAt(lastCall.n)
     /\ TrackIdAt(lastCall.n) = lastCall.before
     /\ StartEventAt(lastCall.n + 1)
     /\ TrackIdAt(lastCall.n + 1) = lastCall.track.track_id
     /\ currentTrackId = lastCall.track.track_id

\* Track 2 was started while track 1 was playing, as the first two calls.
C3_Witness ==
  /\ lastCall.op = "trackStart"
  /\ lastCall.before = "demo-track-1"
  /\ lastCall.track = DEMO_TRACKS[2]
  /\ Len(emitted) = 2

\* C4: a stopCurrentTrack call while track A is current emits exactly one event,
\* right after the track_start of A; the event carries the reason as its event
\* (track_stop by default), A as its track_id and no other field; the emitter is
\* Idle afterwards, and a stopCurrentTrack call that follows a stop emits nothing.
C4_StartThenStop ==
  /\ ( lastCall.op = "stopCurrentTrack" /\ lastCall.before # null )
     => /\ Len(emitted) = lastCall.n + 1
        /\ lastCall.n >= 1
        /\ StartEventAt(lastCall.n)
        /\ TrackIdAt(lastCall.n) = lastCall.before
        /\ StopEventAt(lastCall.n + 1)
        /\ DOMAIN Last(emitted).payload = { "event", "track_id" }
        /\ Last(emitted).payload.event = lastCall.reason
        /\ Last(emitted).payload.track_id = lastCall.before
        /\ currentTrackId = null
  /\ ( /\ lastCall.op = "stopCurrentTrack"
       /\ lastCall.before = null
       /\ lastCall.n >= 1 )
     => /\ StopEventAt(lastCall.n)
        /\ Len(emitted) = lastCall.n

\* Track 1 was started and then stopped with the default reason.
C4_Witness ==
  /\ lastCall.op = "stopCurrentTrack"
  /\ lastCall.reason = "track_stop"
  /\ lastCall.before = "demo-track-1"
  /\ Len(emitted) = 2

\* C5: a trackStart call whose track has an empty or absent track_id emits no
\* event and leaves the current track id as it was, Idle or Playing.
C5_NoIdIsNoOp ==
  ( lastCall.op = "trackStart" /\ LastCallWithoutId ) => LastCallWasNoOp

\* A track with an empty track_id was notified while a track was playing.
C5_Witness ==
  /\ lastCall.op = "trackStart"
  /\ lastCall.track = EmptyIdTrack
  /\ lastCall.before # null

\* C6: a stopCurrentTrack call while there is no current track emits no event and
\* leaves the emitter Idle.
C6_StopWhenIdleIsNoOp ==
  ( lastCall.op = "stopCurrentTrack" /\ lastCall.before = null )
  => ( Len(emitted) = lastCall.n /\ currentTrackId = null )

\* stopCurrentTrack was called after a previous stop had made the emitter Idle.
C6_Witness ==
  /\ lastCall.op = "stopCurrentTrack"
  /\ lastCall.before = null
  /\ lastCall.n >= 2

\* The event a message passed to client.send carries.
EventOf(message) == message[2].event

\* The message is the envelope of the event at position seq of emitted: every
\* field of the emitted payload is in it, unchanged.
CarriesEmitted(entry) ==
  /\ entry.seq \in 1..Len(emitted)
  /\ entry.message[2].type = "transport_event"
  /\ \A f \in DOMAIN emitted[entry.seq].payload :
       /\ f \in DOMAIN EventOf(entry.message)
       /\ EventOf(entry.message)[f] = emitted[entry.seq].payload[f]

\* C7: in a step that emits an event, every member of wss.clients that is OPEN
\* at that moment is sent exactly one message, the one of that event, and every
\* other connection (closing, closed, removed or not yet connected) is sent
\* nothing; in a step that emits no event nothing is sent.
C7_FanOutToOpenClients ==
  [][ /\ Len(emitted') = Len(emitted)
         => \A s \in Subscribers : Len(sent'[s]) <= Len(sent[s])
      /\ Len(emitted') = Len(emitted) + 1
         => \A s \in Subscribers :
              IF s \in clients /\ readyState[s] = OPEN
                THEN /\ Len(sent'[s]) = Len(sent[s]) + 1
                     /\ SubSeq(sent'[s], 1, Len(sent[s])) = sent[s]
                     /\ Last(sent'[s]).seq = Len(emitted')
                     /\ EventOf(Last(sent'[s]).message).track_id
                          = Last(emitted').payload.track_id
                     /\ EventOf(Last(sent'[s]).message).event
                          = Last(emitted').payload.event
                ELSE sent'[s] = sent[s] ]_vars

\* Of two subscribers of the first event, one was closing (and still a member of
\* wss.clients) when the second event was emitted: only the other was sent it.
C7_Witness ==
  \E s1, s2 \in Subscribers :
    /\ Len(emitted) = 2
    /\ Len(sent[s1]) = 2
    /\ Len(sent[s2]) = 1
    /\ s2 \in clients
    /\ readyState[s2] = CLOSING

\* C8: what a subscriber is sent is a subsequence of what the emitter emitted,
\* in the same order: each message carries an emitted event, and a message sent
\* later carries an event emitted later.
C8_SentInEmissionOrder ==
  \A s \in Subscribers :
    \A i \in 1..Len(sent[s]) :
      /\ CarriesEmitted(sent[s][i])
      /\ i > 1 => sent[s][i - 1].seq < sent[s][i].seq

\* A subscriber was sent three events, the last of them a stop.
C8_Witness ==
  \E s \in Subscribers :
    /\ Len(sent[s]) = 3
    /\ EventOf(sent[s][3].message).event = "track_stop"

\* C9 as stated: after a broadcast in which a send failed, the failing
\* subscriber is no longer in wss.clients, every other open subscriber was sent
\* the event, and the emitter has completed its transition.
C9_SendFailureAbsorbed ==
  sendFailed # {} =>
    /\ \A s \in sendFailed : s \notin clients
    /\ \A s \in clients \ sendFailed :
         ( readyState[s] = OPEN /\ subscribedAt[s] < Len(emitted) )
         => ( sent[s] # << >> /\ Last(sent[s]).seq = Len(emitted) )
    /\ currentTrackId =
         ( IF Last(emitted).op = "trackStart"
             THEN Last(emitted).payload.track_id
             ELSE null )

\* C10: a connection is sent nothing before it is accepted, and every message it
\* is ever sent carries an event emitted after it was accepted.
C10_OnlyLaterEvents ==
  \A s \in Subscribers :
    /\ readyState[s] = PENDING => sent[s] = << >>
    /\ \A i \in 1..Len(sent[s]) : sent[s][i].seq > subscribedAt[s]

\* A subscriber connected while the first track was playing and has been sent
\* the start of the next track only.
C10_Witness ==
  \E s \in Subscribers :
    /\ subscribedAt[s] = 1
    /\ Len(emitted) = 2
    /\ emitted[1].op = "trackStart"
    /\ emitted[2].op = "trackStart"
    /\ Len(sent[s]) = 1
    /\ sent[s][1].seq = 2

\* The last request was a GET of one of the given request targets.
LastGetOf(urls) == lastExchange.method = "GET" /\ lastExchange.url \in urls

\* The only response to the last request had this status code and JSON body.
LastResponseWas(code, body) ==
  lastExchange.responses = << [ code |-> code, body |-> << "json", body >> ] >>

\* The connection status the pairing callback named stands for.
StatusAfter(pairing) == IF pairing = "paired" THEN "connected" ELSE "disconnected"

\* C11: the connection status is connected or disconnected, it is connected
\* exactly when the most recent pairing callback was core_paired (disconnected
\* when there has been none), and GET /health answers 200 with status ok and the
\* status that held when it was asked.
C11_HealthReflectsPairing ==
  /\ roonStatus \in { "connected", "disconnected" }
  /\ roonStatus = StatusAfter(lastPairing)
  /\ LastGetOf({ Url_Health, Url_HealthQuery })
     => LastResponseWas(200, [ status |-> "ok", roon |-> StatusAfter(lastExchange.pairing) ])

\* /health was asked after core_unpaired, and core_paired has fired since.
C11_Witness ==
  /\ LastGetOf({ Url_Health })
  /\ lastExchange.pairing = "unpaired"
  /\ roonStatus = "connected"

\* C12: GET /blocked answers 501 with the not-implemented message, without
\* calling the blocked-items provider, when the flag is off
\* (BRIDGE_BLOCKED_NOT_IMPLEMENTED is "1"), and 200 with the provider's list
\* when it is on.
C12_BlockedGate ==
  LastGetOf({ Url_Blocked })
  => IF blockedEnv = "1"
       THEN /\ LastResponseWas(501,
                 [ message |-> "Blocked endpoint is not implemented in this build" ])
            /\ lastExchange.blockedProviderCalls = 0
       ELSE /\ LastResponseWas(200,
                 << [ type |-> "track", id |-> "demo-track-2",
                      label |-> "Demo Track 2 (blocked)" ],
                    [ type |-> "artist", id |-> "demo-artist-1", label |-> "HSAJ Dev" ] >>)
            /\ lastExchange.blockedProviderCalls = 1

\* /blocked was asked with the flag off.
C12_Witness == LastGetOf({ Url_Blocked }) /\ blockedEnv = "1"

\* The id each well-formed /track/ request target stands for.
TrackUrls ==
  { Url_Track1, Url_Track2Encoded, Url_TrackUnknown, Url_TrackSpace, Url_TrackNoId }

RequestedTrackId(url) ==
  CASE url = Url_Track1 -> "demo-track-1"
    [] url = Url_Track2Encoded -> "demo-track-2"
    [] url = Url_TrackUnknown -> "unknown-id"
    [] url = Url_TrackSpace -> "a b"
    [] url = Url_TrackNoId -> ""

\* C13: GET /track/{id}, for a well-formed percent-encoding of id, answers 200
\* with the stored record of the demo track whose id is exactly the decoded id
\* (identifier, artist, album, title, duration, track number), and 404 with
\* "Track not found" and the decoded id when there is no such track.
C13_TrackLookup ==
  LastGetOf(TrackUrls)
  => LET id == RequestedTrackId(lastExchange.url)
         stored == { i \in 1..Len(DEMO_TRACKS) : DEMO_TRACKS[i].roon_track_id = id }
     IN  IF stored # {}
           THEN \E i \in stored :
                  LastResponseWas(200,
                    [ roon_track_id |-> id,
                      artist |-> DEMO_TRACKS[i].artist,
                      album |-> DEMO_TRACKS[i].album,
                      title |-> DEMO_TRACKS[i].title,
                      duration_ms |-> DEMO_TRACKS[i].duration_ms,
                      trackno |-> DEMO_TRACKS[i].trackno ])
           ELSE LastResponseWas(404,
                  [ message |-> "Track not found", roon_track_id |-> id ])

\* The second demo track was looked up by a percent-encoded id.
C13_Witness ==
  /\ LastGetOf({ Url_Track2Encoded })
  /\ lastExchange.responses # << >>
  /\ lastExchange.responses[1].code = 200

\* The last request matched none of GET /health, GET /blocked, GET /track/...
LastRequestUnrouted ==
  /\ lastExchange.outcome # "none"
  /\ \/ lastExchange.method # "GET"
     \/ lastExchange.url \in { Url_TrackNoSlash, Url_Other, Url_None }

\* C14 as stated: the process never fails, every request gets exactly one
\* response, and a request that matches no route gets 404 "Not Found".
C14_EveryRequestAnswered ==
  /\ process = "running"
  /\ lastExchange.outcome # "none" => Len(lastExchange.responses) = 1
  /\ LastRequestUnrouted => LastResponseWas(404, [ message |-> "Not Found" ])

\* C18: a step that handles a request changes neither the current track id nor
\* the connection status nor what was emitted or sent; the connection status
\* changes only in a step of core_paired or core_unpaired, and a step in which
\* the emitter emits or changes its track leaves the connection status alone.
C18_StatusApiReadsOnly ==
  [][ /\ lastExchange' # lastExchange
         => UNCHANGED << currentTrackId, roonStatus, emitted, sent >>
      /\ roonStatus' # roonStatus
         => /\ lastPairing' # lastPairing
            /\ lastPairing' \in { "paired", "unpaired" }
            /\ UNCHANGED << currentTrackId, emitted, sent, lastExchange >>
      /\ ( emitted' # emitted \/ currentTrackId' # currentTrackId )
         => UNCHANGED << roonStatus, lastExchange >> ]_vars

\* A track lookup was answered while a track was playing and the core paired.
C18_Witness ==
  /\ LastGetOf({ Url_Track1 })
  /\ lastExchange.pairing = "paired"
  /\ currentTrackId = "demo-track-2"
  /\ roonStatus = "connected"

\* The positions of emitted that satisfy At, and the last of them.
LastPosition(positions) == CHOOSE i \in positions : \A j \in positions : j <= i

\* C15 as stated: the current track id is absent or a non-empty id; it is absent
\* exactly when nothing was emitted yet or the last emitted event is a
\* track_stop, and otherwise it is the track_id of the last emitted track_start;
\* a trackStart call never leaves the emitter Idle when it was Playing.
C15_IdleIffLastIsTrackStop ==
  LET starts == { i \in 1..Len(emitted) : emitted[i].payload.event = "track_start" }
  IN  /\ currentTrackId # ""
      /\ currentTrackId = null
         <=> ( emitted = << >> \/ Last(emitted).payload.event = "track_stop" )
      /\ currentTrackId # null
         => /\ starts # {}
            /\ currentTrackId = TrackIdAt(LastPosition(starts))
      /\ ( lastCall.op = "trackStart" /\ lastCall.before # null )
         => currentTrackId # null

\* C15 amended: the same, with "a stop" read as the event stopCurrentTrack
\* emitted, whatever reason it carries as its event, and "a track_start" as the
\* event trackStart emitted.
C15_IdleIffLastIsFromStop ==
  LET starts == { i \in 1..Len(emitted) : StartEventAt(i) }
  IN  /\ currentTrackId # ""
      /\ currentTrackId = null
         <=> ( emitted = << >> \/ StopEventAt(Len(emitted)) )
      /\ currentTrackId # null
         => /\ starts # {}
            /\ currentTrackId = TrackIdAt(LastPosition(starts))
      /\ ( lastCall.op = "trackStart" /\ lastCall.before # null )
         => currentTrackId # null

\* A stop has made the emitter Idle again after two tracks.
C15_Witness ==
  /\ lastCall.op = "stopCurrentTrack"
  /\ lastCall.before = "demo-track-2"
  /\ currentTrackId = null
  /\ Len(emitted) = 3

\* C16: the event a trackStart call emits has event track_start and otherwise
\* exactly the fields of the caller's payload, with the caller's values; every
\* emitted event has a track_id, and it is not empty.
C16_StartEventIsNormalized ==
  /\ ( lastCall.op = "trackStart" /\ Len(emitted) = lastCall.n + 1 )
     => LET payload == Last(emitted).payload
        IN  /\ payload.event = "track_start"
            /\ DOMAIN payload = DOMAIN lastCall.track \cup { "event" }
            /\ \A f \in DOMAIN lastCall.track \ { "event" } :
                 payload[f] = lastCall.track[f]
  /\ \A i \in 1..Len(emitted) :
       /\ "track_id" \in DOMAIN emitted[i].payload
       /\ TrackIdAt(i) \notin { "", null }

\* trackStart emitted an event for a payload that said event: "track_stop".
C16_Witness ==
  /\ lastCall.op = "trackStart"
  /\ lastCall.track = UpstreamTrack
  /\ Len(emitted) = lastCall.n + 1

\* C17: every message sent is the JSON of { type: "transport_event", event },
\* where event has the fields of the emitted payload plus timestamp and source;
\* a timestamp or source of the payload is kept, a missing one is the time of
\* the broadcast or the configured source; and every client sent to in one
\* broadcast is sent the same message.
C17_EnvelopeStamped ==
  [][ \A s \in Subscribers :
        Len(sent'[s]) > Len(sent[s])
        => LET message == Last(sent'[s]).message
               payload == Last(emitted').payload
           IN  /\ message[1] = "json"
               /\ DOMAIN message[2] = { "type", "event" }
               /\ message[2].type = "transport_event"
               /\ DOMAIN message[2].event = DOMAIN payload \cup { "timestamp", "source" }
               /\ \A f \in DOMAIN payload : message[2].event[f] = payload[f]
               /\ "timestamp" \notin DOMAIN payload
                  => message[2].event.timestamp = toISOString(now)
               /\ "source" \notin DOMAIN payload
                  => message[2].event.source = "bridge"
               /\ \A other \in Subscribers :
                    Len(sent'[other]) > Len(sent[other])
                    => Last(sent'[other]).message = message ]_vars

\* Both subscribers were sent an event that came with its own timestamp and
\* source, and then one that was stamped by the bridge after the clock advanced.
C17_Witness ==
  /\ \A s \in Subscribers :
       /\ Len(sent[s]) = 2
       /\ EventOf(sent[s][1].message).source = "upstream"
       /\ EventOf(sent[s][1].message).timestamp = "2024-01-01T00:00:00.000Z"
       /\ EventOf(sent[s][2].message).timestamp = "1970-01-01T00:00:00.001Z"
       /\ EventOf(sent[s][2].message).source = "bridge"

\* C19: in the assembled bridge no track_stop is ever emitted or sent and every
\* event comes from trackStart; a step that changes the pairing state emits and
\* sends nothing; and with the demo feed disabled nothing is ever emitted or sent.
C19_OnlyDemoFeedProduces ==
  /\ [] ( \A i \in 1..Len(emitted) :
            /\ emitted[i].op = "trackStart"
            /\ emitted[i].payload.event # "track_stop" )
  /\ [] ( \A s \in Subscribers : \A k \in 1..Len(sent[s]) :
            EventOf(sent[s][k].message).event # "track_stop" )
  /\ [] ( demoEnv = "1"
          => emitted = << >> /\ \A s \in Subscribers : sent[s] = << >> )
  /\ [][ ( lastPairing' # lastPairing \/ roonStatus' # roonStatus )
         => UNCHANGED << emitted, sent, currentTrackId >> ]_vars

\* The feed went from the first track to the second and back while a subscriber
\* listened and the core was paired and unpaired: the subscriber saw two starts.
C19_Witness ==
  /\ demoEnv = unset
  /\ lastPairing = "unpaired"
  /\ currentTrackId = "demo-track-1"
  /\ Len(emitted) = 3
  /\ Len(sent["ws1"]) = 2

\* A step in which currentTrackId becomes id.
Started(id) == currentTrackId' = id /\ currentTrackId # id

\* C20: while the bridge starts no client is connected, and the start emits the
\* first demo track to nobody; every tick of the feed moves to the next demo
\* track cyclically and emits exactly one track_start, whose track_id is not the
\* previous event's; and if the feed ticks again and again, each demo track is
\* started again and again and a subscriber that is open is sent a track_start
\* unless it stops being open.
C20_DemoFeedCycles ==
  /\ [] ( pc = "boot" => clients = {} )
  /\ [][ ( pc = "boot" /\ demoEnv # "1" )
         => /\ Len(emitted') = 1
            /\ emitted'[1].op = "trackStart"
            /\ emitted'[1].payload.event = "track_start"
            /\ \A f \in DOMAIN DEMO_TRACKS[1] :
                 emitted'[1].payload[f] = DEMO_TRACKS[1][f]
            /\ clients' = {}
            /\ \A s \in Subscribers : sent'[s] = << >> ]_vars
  /\ [][ tickParity' # tickParity
         => /\ currentIndex' = (currentIndex + 1) % 2
            /\ Len(emitted') = Len(emitted) + 1 \/ Len(emitted) = HistoryWindow
            /\ \A i \in 1..(Len(emitted') - 1) :
                 emitted'[i] = emitted[i + Len(emitted) + 1 - Len(emitted')]
            /\ Last(emitted').op = "trackStart"
            /\ Last(emitted').payload.event = "track_start"
            /\ Last(emitted').payload.track_id = DEMO_TRACKS[currentIndex' + 1].track_id
            /\ Last(emitted').payload.track_id # Last(emitted).payload.track_id ]_vars
  /\ []<><< tickParity' # tickParity >>_vars
     => /\ \A id \in { "demo-track-1", "demo-track-2" } : []<><< Started(id) >>_vars
        /\ \A s \in BridgeSubscribers :
             ( readyState[s] = OPEN /\ sent[s] = << >> )
             ~> ( \/ readyState[s] # OPEN
                  \/ /\ sent[s] # << >>
                     /\ EventOf(Last(sent[s]).message).event = "track_start" )

\* The feed has come back to the first track for the second time, and a
\* subscriber that joined after the start is still open and has been sent to.
C20_Witness ==
  /\ pc = "running"
  /\ tickParity = 0
  /\ currentTrackId = "demo-track-1"
  /\ Len(emitted) = HistoryWindow
  /\ readyState["ws1"] = OPEN
  /\ sent["ws1"] # << >>
  /\ subscribedAt["ws1"] >= 1

====
